---- MODULE Spec2Model ----
(***************************************************************************)
(* Model of measure-input-latency (src/main.cpp): command-line parsing,    *)
(* the delay generator, the two detection backends, the timed measurement *)
(* loop, the evdev device enumerator and the process exit status.          *)
(***************************************************************************)
EXTENDS Integers, Sequences, FiniteSets, TLC

(***************************************************************************)
(* Bounds of the model.                                                    *)
(***************************************************************************)
\* options on the command line (each option is given at most once)
MaxArgs == 3
\* a measurement is followed only when config.iterations <= MaxIter
MaxIter == 2
\* largest raw value the pseudo-random engine hands out (stands for 2^32-1)
WordMax == 1
\* clock readings are 0..MaxClock
MaxClock == 1
\* events the kernel queues on the evdev device at one time
MaxQueue == 2
\* device indices 0..MaxDev are the ones whose open can succeed
MaxDev == 3
\* delay bounds 0..MaxDelay when get_delays is examined on its own
MaxDelay == 2

(***************************************************************************)
(* Program constants.                                                      *)
(***************************************************************************)
LOW == 0
HIGH == 1
EV_SYN == 0
EV_KEY == 1
INT_MAX == 2147483647
INT_MIN == (-2147483647) - 1
DefaultIterations == 1000
DefaultDelayMin == 10000
DefaultDelayMax == 20000
NumEventIds == 256
\* wait status of a process ended by std::terminate (abort, SIGABRT = 6)
StatusAbort == 134

\* An optional value: None when absent, Some(v) when present.
None == <<>>
Some(v) == <<v>>
IsSome(o) == o # <<>>
Val(o) == o[1]

VARIABLES
  pc,          \* position of the single thread in the program
  config,      \* the global program_config
  seen,        \* the options getopt_long has handed out so far
  exit_code,   \* Some(status) once the process has ended, None while it runs
  out,         \* lines written to std::cout, in order
  err,         \* lines written to std::cerr, in order
  pin_out,     \* Some(level) of g_pin_output, None before init_pins
  pin_in,      \* level the environment presents on g_pin_input
  fd,          \* Some(index) of the device the live Event holds open, else None
  queue,       \* events queued by the kernel on the open evdev device
  rand_gen,    \* Some(get_delays' engine [seed, pos]), None outside get_delays
  mt_out,      \* the engine's output function, as far as it has been observed
  ret,         \* get_delays' vector under construction
  delays,      \* measure_loop's delays
  times,       \* measure_loop's times
  i,           \* measure_loop's trial index
  start,       \* Some(start timestamp) of the running trial
  event_id,    \* print_event_paths' loop index
  backend,     \* the detect closure measure_loop was given: "pin", "usb", "none"
  j,           \* elements of ret that std::generate has filled
  last_read,   \* Some(what the running detect call read last)
  trace,       \* history: the hardware and timing steps taken, in order
  clock_back,  \* history: some sample was taken with now < start
  ncalls,      \* history: invocations of get_delays so far
  prev_delays  \* history: Some(result of the previous get_delays invocation)

vars == <<pc, config, seen, exit_code, out, err, pin_out, pin_in, fd, queue,
          rand_gen, mt_out, ret, delays, times, i, start, event_id, backend, j,
          last_read, trace, clock_back, ncalls, prev_delays>>

(***************************************************************************)
(* std::stoi on a C string, given as a sequence of characters.             *)
(***************************************************************************)
Digits == {"0", "1", "2", "3", "4", "5", "6", "7", "8", "9"}

DigitVal(c) ==
  CASE c = "0" -> 0 [] c = "1" -> 1 [] c = "2" -> 2 [] c = "3" -> 3
    [] c = "4" -> 4 [] c = "5" -> 5 [] c = "6" -> 6 [] c = "7" -> 7
    [] c = "8" -> 8 [] c = "9" -> 9

\* strtol's leading white space
RECURSIVE SkipSpace(_)
SkipSpace(s) ==
  IF s # <<>> /\ Head(s) = " " THEN SkipSpace(Tail(s)) ELSE s

\* Accumulates the digit prefix of s onto acc, whose sign is that of the
\* number (acc <= 0 when neg). Yields [ok, val]; ok is FALSE once the value
\* leaves the range of int (strtol's ERANGE, or stoi's own range test).
RECURSIVE Accumulate(_, _, _)
Accumulate(s, acc, neg) ==
  IF s = <<>> \/ Head(s) \notin Digits
    THEN [ok |-> TRUE, val |-> acc]
    ELSE LET d == DigitVal(Head(s)) IN
         IF neg
           THEN IF acc < (INT_MIN + d + 9) \div 10
                  THEN [ok |-> FALSE, val |-> 0]
                  ELSE Accumulate(Tail(s), acc * 10 - d, neg)
           ELSE IF acc > (INT_MAX - d) \div 10
                  THEN [ok |-> FALSE, val |-> 0]
                  ELSE Accumulate(Tail(s), acc * 10 + d, neg)

\* std::stoi(opt): "ok" with the value of the longest numeric prefix (what
\* follows the digits is ignored), "invalid_argument" when there is no
\* digit, "out_of_range" when the value does not fit an int.
stoi(str) ==
  LET s    == SkipSpace(str)
      neg  == s # <<>> /\ Head(s) = "-"
      sgn  == s # <<>> /\ Head(s) \in {"-", "+"}
      body == IF sgn THEN Tail(s) ELSE s
      acc  == Accumulate(body, 0, neg)
  IN  IF body = <<>> \/ Head(body) \notin Digits
        THEN [status |-> "invalid_argument", val |-> 0]
        ELSE IF ~acc.ok
          THEN [status |-> "out_of_range", val |-> 0]
          ELSE [status |-> "ok", val |-> acc.val]

(***************************************************************************)
(* unsigned int, kept as its two 16-bit halves.                            *)
(***************************************************************************)
\* int -> unsigned int (config.usb = get_num(..), config.key = get_num(..))
ToUnsigned(v) == [hi |-> (v \div 65536) % 65536, lo |-> v % 65536]

\* unsigned int -> int (measure_usb(*config.usb), print_config's opt)
ToInt(u) ==
  IF u.hi >= 32768 THEN (u.hi - 65536) * 65536 + u.lo ELSE u.hi * 65536 + u.lo

\* __u16 -> unsigned int (keyboard_event.code in the comparison with config.key)
CodeToUnsigned(c) == [hi |-> 0, lo |-> c % 65536]

(***************************************************************************)
(* Frames.                                                                 *)
(***************************************************************************)
hwVars   == <<pin_out, pin_in, fd, queue>>
gdVars   == <<rand_gen, mt_out, ret, j, ncalls, prev_delays>>
loopVars == <<delays, times, i, start, last_read, clock_back, backend>>
runVars  == <<hwVars, gdVars, loopVars, event_id, trace>>

(***************************************************************************)
(* help, and the ways parse_args leaves the process.                       *)
(***************************************************************************)
\* help(err), after msgs went to std::cerr: the help text goes to std::cerr
\* and the process exits 1, or to std::cout and it exits 0.
help(is_err, msgs) ==
  /\ pc' = "exited"
  /\ exit_code' = IF is_err THEN Some(1) ELSE Some(0)
  /\ err' = IF is_err THEN err \o msgs \o << <<"help">> >> ELSE err \o msgs
  /\ out' = IF is_err THEN out ELSE Append(out, [kind |-> "help"])

\* an exception nobody catches: std::terminate aborts the process
Terminate(what) ==
  /\ pc' = "exited"
  /\ exit_code' = Some(StatusAbort)
  /\ err' = Append(err, <<"terminate", what>>)
  /\ out' = out

\* get_num: the value std::stoi yields, or how the lambda is left
get_num(opt) == stoi(opt)

\* get_positive without its sign test
get_positive_unchecked(opt, allow_zero) == get_num(opt)

\* get_positive: get_num, then the sign test
get_positive(opt, allow_zero) ==
  LET r == get_num(opt) IN
  IF r.status = "ok" /\ (r.val < 0 \/ (~allow_zero /\ 0 = r.val))
    THEN [status |-> "not_positive", val |-> r.val]
    ELSE r

\* One numeric option: r is what get_num / get_positive yielded and cfg the
\* configuration with the value assigned.
NumericOption(name, r, cfg) ==
  /\ pc = "parse_args"
  /\ name \notin seen
  /\ Cardinality(seen) < MaxArgs
  /\ seen' = seen \cup {name}
  /\ CASE r.status = "ok" ->
            /\ config' = cfg
            /\ UNCHANGED <<pc, exit_code, out, err>>
       [] r.status = "invalid_argument" ->
            /\ help(TRUE, << <<name, "must be a number.">> >>)
            /\ config' = config
       [] r.status = "not_positive" ->
            /\ help(TRUE, << <<name, "must be greater than zero.">> >>)
            /\ config' = config
       [] r.status = "out_of_range" ->
            /\ Terminate("std::out_of_range")
            /\ config' = config
  /\ UNCHANGED runVars

\* a flag option
FlagOption(name, cfg) ==
  /\ pc = "parse_args"
  /\ name \notin seen
  /\ Cardinality(seen) < MaxArgs
  /\ seen' = seen \cup {name}
  /\ config' = cfg
  /\ UNCHANGED <<pc, exit_code, out, err, runVars>>

(***************************************************************************)
(* Option arguments the command line may carry.                            *)
(***************************************************************************)
OutOfRangeArg == <<"9", "9", "9", "9", "9", "9", "9", "9", "9", "9", "9">>
\* arguments of --iterations
IterArgs == { <<"0">>, <<"1">>, <<"2", "x">>, <<"-", "1">>, <<"x">>,
              OutOfRangeArg }
\* arguments of --delaymin and of --delaymax
DelayArgs == { <<"0">>, <<"1">>, <<"-", "1">>, <<"x">>, OutOfRangeArg }
\* arguments of --usb
UsbArgs == { <<"0">>, <<"-", "1">>, <<"x">>, OutOfRangeArg }
\* arguments of --key
KeyArgs == { <<" ", "1">>, <<"x">>, OutOfRangeArg }

(***************************************************************************)
(* parse_args: one action per value getopt_long returns.                   *)
(***************************************************************************)
Opt_i(opt) ==
  LET r == get_positive(opt, FALSE) IN
  NumericOption("iterations", r, [config EXCEPT !.iterations = r.val])

Opt_d(opt) ==
  LET r == get_positive(opt, TRUE) IN
  NumericOption("delaymin", r, [config EXCEPT !.delay_min = r.val])

Opt_D(opt) ==
  LET r == get_positive(opt, TRUE) IN
  NumericOption("delaymax", r, [config EXCEPT !.delay_max = r.val])

Opt_p == FlagOption("pin", [config EXCEPT !.pin = TRUE])

Opt_u(opt) ==
  LET r == get_num(opt) IN
  NumericOption("usb", r, [config EXCEPT !.usb = Some(ToUnsigned(r.val))])

Opt_k(opt) ==
  LET r == get_num(opt) IN
  NumericOption("key", r, [config EXCEPT !.key = Some(ToUnsigned(r.val))])

Opt_e == FlagOption("events", [config EXCEPT !.events = TRUE])

Opt_s == FlagOption("summary", [config EXCEPT !.summary = TRUE])

Opt_h ==
  /\ pc = "parse_args"
  /\ Cardinality(seen) < MaxArgs
  /\ seen' = seen \cup {"help"}
  /\ help(FALSE, <<>>)
  /\ UNCHANGED <<config, runVars>>

\* '?': an unknown option or a missing argument
Opt_unknown ==
  /\ pc = "parse_args"
  /\ Cardinality(seen) < MaxArgs
  /\ seen' = seen \cup {"?"}
  /\ help(TRUE, <<>>)
  /\ UNCHANGED <<config, runVars>>

\* number of commands selected
num_cmds(cfg) ==
  (IF cfg.pin THEN 1 ELSE 0) + (IF IsSome(cfg.usb) THEN 1 ELSE 0)
    + (IF cfg.events THEN 1 ELSE 0)

\* The message of the first test after the option loop that fails, None
\* when all pass.
ValidationError(cfg) ==
  IF cfg.delay_max < cfg.delay_min
    THEN Some(<<"delaymin must be smaller or equal to delaymin">>)
  ELSE IF num_cmds(cfg) = 0
    THEN Some(<<"Must pass one of: pin, usb, events">>)
  ELSE IF num_cmds(cfg) > 1
    THEN Some(<<"Passed conflicting mutually exclusive commands: pin, usb, events">>)
  ELSE IF IsSome(cfg.usb) /\ ~IsSome(cfg.key)
    THEN Some(<<"Must pass --key when using usb measurement">>)
  ELSE None

\* getopt_long returns -1: the loop ends and the configuration is validated
Opt_end ==
  /\ pc = "parse_args"
  /\ LET e == ValidationError(config) IN
     IF IsSome(e)
       THEN help(TRUE, <<Val(e)>>)
       ELSE /\ pc' = "main"
            /\ UNCHANGED <<exit_code, out, err>>
  /\ UNCHANGED <<config, seen, runVars>>

(***************************************************************************)
(* main: the command dispatch.                                             *)
(***************************************************************************)
Main ==
  /\ pc = "main"
  /\ IF config.events
       THEN pc' = "print_event_paths" /\ event_id' = 0 /\ backend' = backend
     ELSE IF config.pin
       THEN pc' = "measure_loop" /\ event_id' = event_id /\ backend' = "pin"
     ELSE IF IsSome(config.usb)
       THEN pc' = "measure_usb" /\ event_id' = event_id /\ backend' = backend
     ELSE pc' = "main_return" /\ event_id' = event_id /\ backend' = backend
  /\ UNCHANGED <<config, seen, exit_code, out, err, hwVars, gdVars, delays,
                 times, i, start, last_read, clock_back, trace>>

\* a main that returns failure
MainReturnFailure ==
  /\ pc = "main_return"
  /\ pc' = "exited"
  /\ exit_code' = Some(1)
  /\ UNCHANGED <<config, seen, out, err, runVars>>

\* return 0 from main
MainReturn ==
  /\ pc = "main_return"
  /\ pc' = "exited"
  /\ exit_code' = Some(0)
  /\ UNCHANGED <<config, seen, out, err, runVars>>

(***************************************************************************)
(* The environment of the evdev devices.                                   *)
(***************************************************************************)
\* open() of /dev/input/event<id> can succeed for these indices only
DevIds == 0..MaxDev

\* The events a device delivers: key 1 released (0), pressed (1) and
\* auto-repeated (2), key 2 pressed, and an event of another type that
\* carries the code and the value of key 1 pressed.
Events ==
  [type : {EV_KEY}, code : {1}, value : {0, 1, 2}]
    \cup {[type |-> EV_KEY, code |-> 2, value |-> 1],
          [type |-> EV_SYN, code |-> 1, value |-> 1]}

\* The kernel queues an event on the device the measurement holds open. The
\* arrival is placed where its order with the program's steps can be told
\* apart: before a trial's output is driven (during the sleep) and during
\* the two waits; it commutes with the steps in between, which do not read.
EnvEvent ==
  /\ pc \in {"sleep", "detect_true", "detect_false"}
  /\ backend = "usb"
  /\ IsSome(fd)
  /\ Len(queue) < MaxQueue
  /\ \E e \in Events : queue' = Append(queue, e)
  /\ UNCHANGED <<pc, config, seen, exit_code, out, err, pin_out, pin_in, fd,
                 gdVars, loopVars, event_id, trace>>

\* The level on the input pin changes. Only the waits read the pin, so the
\* change is placed there.
EnvPin ==
  /\ pc \in {"detect_true", "detect_false"}
  /\ backend = "pin"
  /\ pin_in' = IF pin_in = LOW THEN HIGH ELSE LOW
  /\ UNCHANGED <<pc, config, seen, exit_code, out, err, pin_out, fd, queue,
                 gdVars, loopVars, event_id, trace>>

(***************************************************************************)
(* print_event_paths.                                                      *)
(***************************************************************************)
\* Event event(event_id) succeeds
EnumOpenOk ==
  /\ pc = "print_event_paths"
  /\ event_id < NumEventIds
  /\ event_id \in DevIds
  /\ fd' = Some(event_id)
  /\ trace' = Append(trace, [op |-> "open", id |-> event_id])
  /\ pc' = "print_event_name"
  /\ UNCHANGED <<config, seen, exit_code, out, err, pin_out, pin_in, queue,
                 gdVars, loopVars, event_id>>

\* a failed open that ends the enumeration
EnumOpenFailBreaks ==
  /\ pc = "print_event_paths"
  /\ event_id < NumEventIds
  /\ trace' = Append(trace, [op |-> "open_failed", id |-> event_id])
  /\ pc' = "main_return"
  /\ UNCHANGED <<config, seen, exit_code, out, err, hwVars, gdVars, loopVars,
                 event_id>>

\* Event event(event_id) throws OpenException: continue
EnumOpenFail ==
  /\ pc = "print_event_paths"
  /\ event_id < NumEventIds
  /\ event_id' = event_id + 1
  /\ trace' = Append(trace, [op |-> "open_failed", id |-> event_id])
  /\ UNCHANGED <<pc, config, seen, exit_code, out, err, hwVars, gdVars,
                 loopVars>>

\* an Event whose descriptor is not closed when it leaves scope
EnumPrintLeaks ==
  /\ pc = "print_event_name"
  /\ out' = Append(out, [kind |-> "event", id |-> Val(fd)])
  /\ event_id' = event_id + 1
  /\ pc' = "print_event_paths"
  /\ UNCHANGED <<config, seen, exit_code, err, hwVars, gdVars, loopVars, trace>>

\* the entry is written, the Event leaves scope (its descriptor is closed)
EnumPrint ==
  /\ pc = "print_event_name"
  /\ out' = Append(out, [kind |-> "event", id |-> Val(fd)])
  /\ fd' = None
  /\ trace' = Append(trace, [op |-> "close", id |-> Val(fd)])
  /\ event_id' = event_id + 1
  /\ pc' = "print_event_paths"
  /\ UNCHANGED <<config, seen, exit_code, err, pin_out, pin_in, queue,
                 gdVars, loopVars>>

\* an enumeration that falls through into a measurement
EnumDoneFallsThrough ==
  /\ pc = "print_event_paths"
  /\ ~(event_id < NumEventIds)
  /\ pc' = "measure_loop"
  /\ UNCHANGED <<config, seen, exit_code, out, err, runVars>>

\* the loop ends
EnumDone ==
  /\ pc = "print_event_paths"
  /\ ~(event_id < NumEventIds)
  /\ pc' = "main_return"
  /\ UNCHANGED <<config, seen, exit_code, out, err, runVars>>

(***************************************************************************)
(* measure_usb: the Event is constructed before measure_loop is entered.   *)
(***************************************************************************)
UsbOpenOk ==
  /\ pc = "measure_usb"
  /\ ToInt(Val(config.usb)) \in DevIds
  /\ fd' = Some(ToInt(Val(config.usb)))
  /\ queue' = <<>>
  /\ backend' = "usb"
  /\ trace' = Append(trace, [op |-> "open", id |-> ToInt(Val(config.usb))])
  /\ pc' = "measure_loop"
  /\ UNCHANGED <<config, seen, exit_code, out, err, pin_out, pin_in, gdVars,
                 delays, times, i, start, last_read, clock_back, event_id>>

\* an open failure that is passed over in silence, as the enumeration does
UsbOpenFailSkipped ==
  /\ pc = "measure_usb"
  /\ trace' = Append(trace, [op |-> "open_failed",
                              id |-> ToInt(Val(config.usb))])
  /\ pc' = "main_return"
  /\ UNCHANGED <<config, seen, exit_code, out, err, hwVars, gdVars, loopVars,
                 event_id>>

\* OpenException: the failure is reported and the process exits 1
UsbOpenFail ==
  /\ pc = "measure_usb"
  /\ err' = Append(err, <<"Could not open fd for", ToInt(Val(config.usb))>>)
  /\ trace' = Append(trace, [op |-> "open_failed",
                              id |-> ToInt(Val(config.usb))])
  /\ pc' = "exited"
  /\ exit_code' = Some(1)
  /\ UNCHANGED <<config, seen, out, hwVars, gdVars, loopVars, event_id>>

(***************************************************************************)
(* get_delays.                                                             *)
(***************************************************************************)
\* a seed that differs from one invocation to the next
SeedFromCalls == 30378 + ncalls

\* the constant the engine is seeded with
Seed == 30378

\* std::mt19937 rand_gen(seed): a freshly seeded engine has handed out nothing
mt19937(seed) == [seed |-> seed, pos |-> 0]

\* a distribution that reaches one past the upper bound
int_dist_past(a, b, raw) == a + (raw % (b - a + 2))

\* int_dist(rand_gen), for the raw value the engine hands out: a value of the
\* closed range [a, b]
int_dist(a, b, raw) == a + (raw % (b - a + 1))

\* the engine is constructed and the vector is made, value-initialized
GetDelaysCall ==
  /\ pc = "get_delays"
  /\ config.iterations <= MaxIter
  /\ rand_gen' = Some(mt19937(Seed))
  /\ ret' = [k \in 1..config.iterations |-> 0]
  /\ j' = 0
  /\ ncalls' = ncalls + 1
  /\ pc' = "generate"
  /\ UNCHANGED <<config, seen, exit_code, out, err, hwVars, mt_out,
                 prev_delays, loopVars, event_id, trace>>

\* std::generate fills the next element. What the engine hands out at a
\* position it has not been observed at is not known; once observed it is
\* the value at that position of every engine seeded alike.
Generate ==
  /\ pc = "generate"
  /\ j < Len(ret)
  /\ LET g == Val(rand_gen)
         at == <<g.seed, g.pos>>
     IN  \E raw \in 0..WordMax :
           /\ at \in DOMAIN mt_out => raw = mt_out[at]
           /\ mt_out' = (at :> raw) @@ mt_out
           /\ ret' = [ret EXCEPT ![j + 1] =
                        int_dist(config.delay_min, config.delay_max, raw)]
           /\ rand_gen' = Some([g EXCEPT !.pos = g.pos + 1])
  /\ j' = j + 1
  /\ UNCHANGED <<pc, config, seen, exit_code, out, err, hwVars, ncalls,
                 prev_delays, loopVars, event_id, trace>>

\* return ret: the caller's delays; the engine is destroyed
GetDelaysReturn ==
  /\ pc = "generate"
  /\ j = Len(ret)
  /\ delays' = ret
  /\ ret' = <<>>
  /\ rand_gen' = None
  /\ pc' = "times"
  /\ UNCHANGED <<config, seen, exit_code, out, err, hwVars, mt_out, j,
                 ncalls, prev_delays, times, i, start, last_read, clock_back,
                 backend, event_id, trace>>

(***************************************************************************)
(* The detection closures.                                                 *)
(***************************************************************************)
\* bool -> int, as the comparisons of the closures promote `pressed`
BoolToInt(b) == IF b THEN 1 ELSE 0

\* an active-high test: pressed is HIGH
PinCondActiveHigh(level, pressed) == level = BoolToInt(pressed)

\* measure_pin's test on the level digitalRead returned:
\*   digitalRead(g_pin_input) == pressed ? LOW : HIGH
\* parses as (digitalRead(..) == pressed) ? LOW : HIGH
PinCond(level, pressed) ==
  (IF level = BoolToInt(pressed) THEN LOW ELSE HIGH) # 0

\* code == config.key: an empty optional equals no value
KeyEquals(code, key) == IsSome(key) /\ CodeToUnsigned(code) = Val(key)

\* a test that leaves out the event's type
EventCondAnyType(e, pressed, key) ==
  KeyEquals(e.code, key) /\ e.value = BoolToInt(pressed)

\* measure_usb's test on the event read:
\*   type == EV_KEY && code == config.key && value == pressed ? 1 : 0
\* parses as (type == EV_KEY && code == config.key && value == pressed) ? 1 : 0
EventCond(e, pressed, key) ==
  (IF e.type = EV_KEY /\ KeyEquals(e.code, key) /\ e.value = BoolToInt(pressed)
     THEN 1 ELSE 0) # 0

(***************************************************************************)
(* Writing a sample: operator<< of the nanosecond count.                   *)
(***************************************************************************)
DigitChar(d) ==
  CASE d = 0 -> "0" [] d = 1 -> "1" [] d = 2 -> "2" [] d = 3 -> "3"
    [] d = 4 -> "4" [] d = 5 -> "5" [] d = 6 -> "6" [] d = 7 -> "7"
    [] d = 8 -> "8" [] d = 9 -> "9"

RECURSIVE NatToString(_)
NatToString(n) ==
  IF n < 10 THEN <<DigitChar(n)>>
            ELSE Append(NatToString(n \div 10), DigitChar(n % 10))

IntToString(n) == IF n < 0 THEN <<"-">> \o NatToString(0 - n) ELSE NatToString(n)

(***************************************************************************)
(* measure_loop.                                                           *)
(***************************************************************************)
\* the line print_config writes
SummaryLine(cfg) ==
  [kind |-> "summary", iterations |-> cfg.iterations,
   delay_min |-> cfg.delay_min, delay_max |-> cfg.delay_max, pin |-> cfg.pin,
   usb |-> IF IsSome(cfg.usb) THEN Some(ToInt(Val(cfg.usb))) ELSE None,
   key |-> IF IsSome(cfg.key) THEN Some(ToInt(Val(cfg.key))) ELSE None]

\* if (config.summary) print_config();
LoopSummary ==
  /\ pc = "measure_loop"
  /\ IF config.summary
       THEN /\ out' = Append(out, SummaryLine(config))
            /\ trace' = Append(trace, [op |-> "print_config"])
       ELSE UNCHANGED <<out, trace>>
  /\ pc' = "init_pins"
  /\ UNCHANGED <<config, seen, exit_code, err, hwVars, gdVars, loopVars,
                 event_id>>

\* init_pins(): the output pin is driven LOW
InitPins ==
  /\ pc = "init_pins"
  /\ pin_out' = Some(LOW)
  /\ trace' = Append(trace, [op |-> "init_pins"])
  /\ pc' = "get_delays"
  /\ UNCHANGED <<config, seen, exit_code, out, err, pin_in, fd, queue, gdVars,
                 loopVars, event_id>>

\* a loop that initializes the pins again before every trial but the first
LoopTestReinit(k) ==
  IF k < config.iterations THEN (IF k > 0 THEN "init_pins" ELSE "sleep")
                           ELSE "loop_return"

\* where the loop goes when its index is k
LoopTest(k) == IF k < config.iterations THEN "sleep" ELSE "loop_return"

\* std::vector times(config.iterations); i = 0
LoopEnter ==
  /\ pc = "times"
  /\ backend # "none"
  /\ times' = [k \in 1..config.iterations |-> 0]
  /\ i' = 0
  /\ pc' = LoopTest(0)
  /\ UNCHANGED <<config, seen, exit_code, out, err, hwVars, gdVars, delays,
                 start, last_read, clock_back, backend, event_id, trace>>

\* a sleep that takes the first delay in every trial
SleepFirstDelay ==
  /\ pc = "sleep"
  /\ trace' = Append(trace, [op |-> "sleep", i |-> i, d |-> delays[1]])
  /\ pc' = "start"
  /\ UNCHANGED <<config, seen, exit_code, out, err, hwVars, gdVars, loopVars,
                 event_id>>

\* std::this_thread::sleep_for(delays[i])
Sleep ==
  /\ pc = "sleep"
  /\ trace' = Append(trace, [op |-> "sleep", i |-> i, d |-> delays[i + 1]])
  /\ pc' = "start"
  /\ UNCHANGED <<config, seen, exit_code, out, err, hwVars, gdVars, loopVars,
                 event_id>>

\* auto start = high_resolution_clock::now()
Start ==
  /\ pc = "start"
  /\ \E t \in 0..MaxClock : start' = Some(t)
  /\ trace' = Append(trace, [op |-> "start", i |-> i])
  /\ pc' = "write_high"
  /\ UNCHANGED <<config, seen, exit_code, out, err, hwVars, gdVars, delays,
                 times, i, last_read, clock_back, backend, event_id>>

\* digitalWrite(g_pin_output, HIGH); detect(true) is entered
WriteHigh ==
  /\ pc = "write_high"
  /\ pin_out' = Some(HIGH)
  /\ last_read' = None
  /\ trace' = Append(trace, [op |-> "write", i |-> i, level |-> HIGH])
  /\ pc' = "detect_true"
  /\ UNCHANGED <<config, seen, exit_code, out, err, pin_in, fd, queue, gdVars,
                 delays, times, i, start, clock_back, backend, event_id>>

\* the argument of the detect call that is running
Pressed == pc = "detect_true"

\* detect returns: to the store after detect(true), to the loop's increment
\* and test after detect(false)
DetectReturn ==
  /\ trace' = Append(trace, [op |-> "detect", i |-> i, pressed |-> Pressed])
  /\ IF Pressed
       THEN pc' = "store" /\ i' = i /\ start' = start
       ELSE pc' = LoopTest(i + 1) /\ i' = i + 1 /\ start' = None

\* a wait that gives up: the call returns though the read was not the target
DetectGivesUp == DetectReturn

\* the read was not the target: the closure's loop goes round
DetectContinue == UNCHANGED <<pc, i, start, trace>>

\* measure_pin's closure: one digitalRead and the test on it
PinRead ==
  /\ pc \in {"detect_true", "detect_false"}
  /\ backend = "pin"
  /\ last_read' = Some(pin_in)
  /\ IF PinCond(pin_in, Pressed) THEN DetectReturn ELSE DetectContinue
  /\ UNCHANGED <<config, seen, exit_code, out, err, hwVars, gdVars, delays,
                 times, clock_back, backend, event_id>>

\* a failed read that loses the oldest queued event
UsbReadFailDrops ==
  /\ pc \in {"detect_true", "detect_false"}
  /\ backend = "usb"
  /\ last_read' = Some([type |-> -1, code |-> -1, value |-> -1])
  /\ queue' = IF queue = <<>> THEN queue ELSE Tail(queue)
  /\ UNCHANGED <<pc, config, seen, exit_code, out, err, pin_out, pin_in, fd,
                 gdVars, delays, times, i, start, clock_back, backend,
                 event_id, trace>>

\* what keyboard_event stands for after a read() that returned -1: no event
NoEvent == [type |-> -1, code |-> -1, value |-> -1]

\* measure_usb's closure: read() returns -1, continue
UsbReadFail ==
  /\ pc \in {"detect_true", "detect_false"}
  /\ backend = "usb"
  /\ last_read' = Some(NoEvent)
  /\ UNCHANGED <<pc, config, seen, exit_code, out, err, hwVars, gdVars, delays,
                 times, i, start, clock_back, backend, event_id, trace>>

\* measure_usb's closure: read() hands out the oldest queued event
UsbReadEvent ==
  /\ pc \in {"detect_true", "detect_false"}
  /\ backend = "usb"
  /\ queue # <<>>
  /\ queue' = Tail(queue)
  /\ last_read' = Some(Head(queue))
  /\ IF EventCond(Head(queue), Pressed, config.key)
       THEN DetectReturn ELSE DetectContinue
  /\ UNCHANGED <<config, seen, exit_code, out, err, pin_out, pin_in, fd,
                 gdVars, delays, times, clock_back, backend, event_id>>

\* the subtraction the other way round
ElapsedReversed(now, t0) == t0 - now

\* the sample: duration_cast<nanoseconds>(now() - start)
Elapsed(now, t0) == now - t0

\* times[i] = ...
Store ==
  /\ pc = "store"
  /\ \E now \in 0..MaxClock :
       /\ times' = [times EXCEPT ![i + 1] = Elapsed(now, Val(start))]
       /\ clock_back' = (clock_back \/ now < Val(start))
  /\ trace' = Append(trace, [op |-> "store", i |-> i, v |-> times'[i + 1]])
  /\ pc' = "write_low"
  /\ UNCHANGED <<config, seen, exit_code, out, err, hwVars, gdVars, delays,
                 i, start, last_read, backend, event_id>>

\* a trial that leaves the output asserted
WriteLowOmitted ==
  /\ pc = "write_low"
  /\ last_read' = None
  /\ trace' = Append(trace, [op |-> "write", i |-> i, level |-> LOW])
  /\ pc' = "detect_false"
  /\ UNCHANGED <<config, seen, exit_code, out, err, hwVars, gdVars, delays,
                 times, i, start, clock_back, backend, event_id>>

\* digitalWrite(g_pin_output, LOW); detect(false) is entered
WriteLow ==
  /\ pc = "write_low"
  /\ pin_out' = Some(LOW)
  /\ last_read' = None
  /\ trace' = Append(trace, [op |-> "write", i |-> i, level |-> LOW])
  /\ pc' = "detect_false"
  /\ UNCHANGED <<config, seen, exit_code, out, err, pin_in, fd, queue, gdVars,
                 delays, times, i, start, clock_back, backend, event_id>>

\* return times; in measure_usb the Event leaves scope (descriptor closed)
LoopReturn ==
  /\ pc = "loop_return"
  /\ fd' = None
  /\ queue' = <<>>
  /\ trace' = IF IsSome(fd) THEN Append(trace, [op |-> "close", id |-> Val(fd)])
                            ELSE trace
  /\ pc' = "measure"
  /\ UNCHANGED <<config, seen, exit_code, out, err, pin_out, pin_in, gdVars,
                 loopVars, event_id>>

(***************************************************************************)
(* measure: the samples are written, one per line.                         *)
(***************************************************************************)
\* the lines in the opposite order
SampleLinesReversed(ts) ==
  [k \in 1..Len(ts) |->
     [kind |-> "sample", text |-> IntToString(ts[Len(ts) + 1 - k])]]

SampleLines(ts) ==
  [k \in 1..Len(ts) |-> [kind |-> "sample", text |-> IntToString(ts[k])]]

Measure ==
  /\ pc = "measure"
  /\ out' = out \o SampleLines(times)
  /\ pc' = "main_return"
  /\ UNCHANGED <<config, seen, exit_code, err, runVars>>

(***************************************************************************)
(* The program.                                                            *)
(***************************************************************************)
DefaultConfig ==
  [iterations |-> DefaultIterations, delay_min |-> DefaultDelayMin,
   delay_max |-> DefaultDelayMax, pin |-> FALSE, usb |-> None, key |-> None,
   events |-> FALSE, summary |-> FALSE]

Init ==
  /\ pc = "parse_args"
  /\ config = DefaultConfig
  /\ seen = {}
  /\ exit_code = None
  /\ out = <<>>
  /\ err = <<>>
  /\ pin_out = None
  /\ pin_in = HIGH
  /\ fd = None
  /\ queue = <<>>
  /\ rand_gen = None
  /\ mt_out = <<>>
  /\ ret = <<>>
  /\ j = 0
  /\ delays = <<>>
  /\ times = <<>>
  /\ i = 0
  /\ start = None
  /\ event_id = 0
  /\ backend = "none"
  /\ last_read = None
  /\ trace = <<>>
  /\ clock_back = FALSE
  /\ ncalls = 0
  /\ prev_delays = None

Next ==
  \/ \E opt \in IterArgs : Opt_i(opt)
  \/ \E opt \in DelayArgs : Opt_d(opt)
  \/ \E opt \in DelayArgs : Opt_D(opt)
  \/ Opt_p
  \/ \E opt \in UsbArgs : Opt_u(opt)
  \/ \E opt \in KeyArgs : Opt_k(opt)
  \/ Opt_e
  \/ Opt_s
  \/ Opt_h
  \/ Opt_unknown
  \/ Opt_end
  \/ Main
  \/ MainReturn
  \/ EnvEvent
  \/ EnvPin
  \/ EnumOpenOk
  \/ EnumOpenFail
  \/ EnumPrint
  \/ EnumDone
  \/ UsbOpenOk
  \/ UsbOpenFail
  \/ LoopSummary
  \/ InitPins
  \/ GetDelaysCall
  \/ Generate
  \/ GetDelaysReturn
  \/ LoopEnter
  \/ Sleep
  \/ Start
  \/ WriteHigh
  \/ PinRead
  \/ UsbReadFail
  \/ UsbReadEvent
  \/ Store
  \/ WriteLow
  \/ LoopReturn
  \/ Measure

Spec == Init /\ [][Next]_vars

(***************************************************************************)
(* The program under the assumption that every wait is answered: the       *)
(* thread keeps running, a read of a device with queued events eventually  *)
(* succeeds, the environment presents the awaited pin level or key event   *)
(* after every output flip, again and again while the wait lasts, and a    *)
(* read that would end the wait is not missed for ever.                    *)
(***************************************************************************)
\* the steps of the program's thread
Program ==
  \/ \E opt \in IterArgs : Opt_i(opt)
  \/ \E opt \in DelayArgs : Opt_d(opt)
  \/ \E opt \in DelayArgs : Opt_D(opt)
  \/ Opt_p
  \/ \E opt \in UsbArgs : Opt_u(opt)
  \/ \E opt \in KeyArgs : Opt_k(opt)
  \/ Opt_e
  \/ Opt_s
  \/ Opt_h
  \/ Opt_unknown
  \/ Opt_end
  \/ Main
  \/ MainReturn
  \/ EnumOpenOk
  \/ EnumOpenFail
  \/ EnumPrint
  \/ EnumDone
  \/ UsbOpenOk
  \/ UsbOpenFail
  \/ LoopSummary
  \/ InitPins
  \/ GetDelaysCall
  \/ Generate
  \/ GetDelaysReturn
  \/ LoopEnter
  \/ Sleep
  \/ Start
  \/ WriteHigh
  \/ PinRead
  \/ UsbReadFail
  \/ UsbReadEvent
  \/ Store
  \/ WriteLow
  \/ LoopReturn
  \/ Measure

\* the environment presents what the running detect call waits for
EnvPresentsLevel ==
  EnvPin /\ pin_in' = (IF Pressed THEN LOW ELSE HIGH)

EnvPresentsEvent ==
  /\ pc \in {"detect_true", "detect_false"}
  /\ EnvEvent
  /\ queue'[Len(queue')] = [type |-> EV_KEY, code |-> ToInt(Val(config.key)),
                            value |-> BoolToInt(Pressed)]

\* a read on which the running detect call returns
ReadReturns ==
  /\ pc \in {"detect_true", "detect_false"}
  /\ PinRead \/ UsbReadEvent
  /\ pc' # pc

Answered ==
  /\ WF_vars(Program)
  /\ WF_vars(UsbReadEvent)
  /\ SF_vars(EnvPresentsLevel)
  /\ SF_vars(EnvPresentsEvent)
  /\ SF_vars(ReadReturns)

SpecAnswered == Init /\ [][Next]_vars /\ Answered

(***************************************************************************)
(* get_delays on its own: the configurations parse_args lets through, with *)
(* delay bounds 0..MaxDelay, and get_delays invoked twice on each.         *)
(***************************************************************************)
\* auto delays = get_delays(), once more on the same configuration
CallAgain ==
  /\ pc = "times"
  /\ ncalls < 2
  /\ prev_delays' = Some(delays)
  /\ pc' = "get_delays"
  /\ UNCHANGED <<config, seen, exit_code, out, err, hwVars, rand_gen, mt_out,
                 ret, j, ncalls, loopVars, event_id, trace>>

InitDelays ==
  /\ pc = "get_delays"
  /\ \E n \in 1..MaxIter, a \in 0..MaxDelay, b \in 0..MaxDelay :
       /\ a <= b
       /\ config = [DefaultConfig EXCEPT !.iterations = n, !.delay_min = a,
                                         !.delay_max = b, !.pin = TRUE]
  /\ seen = {"iterations", "delaymin", "delaymax", "pin"}
  /\ exit_code = None
  /\ out = <<>>
  /\ err = <<>>
  /\ pin_out = Some(LOW)
  /\ pin_in = HIGH
  /\ fd = None
  /\ queue = <<>>
  /\ rand_gen = None
  /\ mt_out = <<>>
  /\ ret = <<>>
  /\ j = 0
  /\ delays = <<>>
  /\ times = <<>>
  /\ i = 0
  /\ start = None
  /\ event_id = 0
  /\ backend = "pin"
  /\ last_read = None
  /\ trace = <<[op |-> "init_pins"]>>
  /\ clock_back = FALSE
  /\ ncalls = 0
  /\ prev_delays = None

NextDelays ==
  \/ GetDelaysCall
  \/ Generate
  \/ GetDelaysReturn
  \/ CallAgain

SpecDelays == InitDelays /\ [][NextDelays]_vars

(***************************************************************************)
(* Properties.                                                             *)
(***************************************************************************)
\* the steps of measure_loop's trials, in the order they were taken
LoopOps == {"sleep", "start", "write", "detect", "store"}
IsLoopOp(e) == e.op \in LoopOps
LoopTrace == SelectSeq(trace, IsLoopOp)

\* the k-th step of a loop that runs its trials as the specification says
ExpectedStep(k) ==
  LET t == (k - 1) \div 7
      phase == (k - 1) % 7
  IN  CASE phase = 0 -> [op |-> "sleep", i |-> t, d |-> delays[t + 1]]
        [] phase = 1 -> [op |-> "start", i |-> t]
        [] phase = 2 -> [op |-> "write", i |-> t, level |-> HIGH]
        [] phase = 3 -> [op |-> "detect", i |-> t, pressed |-> TRUE]
        [] phase = 4 -> [op |-> "store", i |-> t, v |-> times[t + 1]]
        [] phase = 5 -> [op |-> "write", i |-> t, level |-> LOW]
        [] phase = 6 -> [op |-> "detect", i |-> t, pressed |-> FALSE]

\* measure_loop has returned
LoopReturned ==
  /\ backend # "none"
  /\ \/ pc \in {"measure", "main_return"}
     \/ pc = "exited" /\ exit_code = Some(0)

\* C1: the steps of the trials are taken in the order sleep(delays[i]),
\* start timestamp, output HIGH, detect(true) returns, store times[i],
\* output LOW, detect(false) returns, trial after trial: at every moment the
\* steps taken so far are the first steps of that sequence, no trial beyond
\* the last is begun, and the loop returns only after all of them.
C1_TrialOrder ==
  /\ Len(LoopTrace) <= 7 * config.iterations
  /\ \A k \in 1..Len(LoopTrace) : LoopTrace[k] = ExpectedStep(k)
  /\ LoopReturned => Len(LoopTrace) = 7 * config.iterations

\* two trials have run to the end, with different delays
C1_Witness ==
  /\ pc = "loop_return"
  /\ Len(LoopTrace) = 14
  /\ delays[1] # delays[2]

\* the store steps taken for trial t
StoresOf(t) == {k \in 1..Len(trace) : trace[k].op = "store" /\ trace[k].i = t}

\* C2: when measure_loop has returned, times has exactly config.iterations
\* elements, element i was written exactly once, by trial i, and still
\* holds the value written; every element is >= 0 unless the clock went
\* backwards between a trial's two readings.
C2_Samples ==
  LoopReturned =>
    /\ Len(times) = config.iterations
    /\ \A t \in 0..(config.iterations - 1) :
         /\ Cardinality(StoresOf(t)) = 1
         /\ \A k \in StoresOf(t) : trace[k].v = times[t + 1]
    /\ ~clock_back => \A k \in 1..Len(times) : times[k] >= 0

\* a run of two trials has returned, the clock never went backwards and a
\* sample is positive
C2_Witness ==
  /\ LoopReturned
  /\ Len(times) = 2
  /\ ~clock_back
  /\ times[2] > 0

\* positions after a detect(true) call returned and before the next call
AfterDetectTrue == pc \in {"store", "write_low"}

\* positions after a detect(false) call returned and before the next call
AfterDetectFalse ==
  /\ i >= 1
  /\ pc \in {"sleep", "start", "write_high", "loop_return", "measure",
             "main_return"}

InDetect == pc \in {"detect_true", "detect_false"}

\* e is a key event of the configured key with the value detect(pressed)
\* waits for: 1 when pressed, 0 when not
IsTarget(e, pressed) ==
  /\ e.type = EV_KEY
  /\ IsSome(config.key)
  /\ e.code = ToInt(Val(config.key))
  /\ e.value = (IF pressed THEN 1 ELSE 0)

\* what holds of the event the Evdev detect read last
C3_State ==
  backend = "usb" =>
    /\ InDetect /\ IsSome(last_read) => ~IsTarget(Val(last_read), Pressed)
    /\ AfterDetectTrue => IsSome(last_read) /\ IsTarget(Val(last_read), TRUE)
    /\ AfterDetectFalse => IsSome(last_read) /\ IsTarget(Val(last_read), FALSE)

\* what holds of a step of the Evdev detect that takes an event or returns
C3_Step ==
  (backend = "usb" /\ InDetect /\ (Len(queue') < Len(queue) \/ pc' # pc)) =>
    /\ queue # <<>>
    /\ queue' = Tail(queue)
    /\ last_read' = Some(Head(queue))
    /\ (pc' # pc) <=> IsTarget(Head(queue), Pressed)

\* C3: the Evdev detect(pressed) returns at the first event read that is a
\* key event of the configured key with value 1 (pressed) or 0 (not
\* pressed), and on no other event; every read takes exactly the oldest
\* queued event, so on return that event and the ones before it are
\* consumed and the ones after it are still queued.
C3_EvdevDetect == []C3_State /\ [][C3_Step]_vars

\* detect(true) has returned on the press of the configured key and the
\* event that followed it is still queued
C3_Witness ==
  /\ backend = "usb"
  /\ pc = "store"
  /\ Val(last_read) = [type |-> EV_KEY, code |-> 1, value |-> 1]
  /\ queue # <<>>

\* the level detect(pressed) waits for: LOW when pressed, HIGH when not
TargetLevel(pressed) == IF pressed THEN LOW ELSE HIGH

\* C4: the GPIO detect(true) returns exactly on a read of LOW and
\* detect(false) exactly on a read of HIGH: while it waits every level it
\* has read is the opposite one, and once it has returned the level read
\* last is the target, and every read of the target level returns.
C4_GpioDetect ==
  backend = "pin" =>
    /\ InDetect /\ IsSome(last_read) => Val(last_read) # TargetLevel(Pressed)
    /\ AfterDetectTrue => last_read = Some(TargetLevel(TRUE))
    /\ AfterDetectFalse => last_read = Some(TargetLevel(FALSE))

\* detect(false) of the first trial has read LOW and goes on waiting
C4_Witness ==
  /\ backend = "pin"
  /\ pc = "detect_false"
  /\ last_read = Some(LOW)

\* the configuration satisfies what parse_args is to guarantee
ValidConfig(cfg) ==
  /\ cfg.iterations >= 1
  /\ 0 <= cfg.delay_min
  /\ cfg.delay_min <= cfg.delay_max
  /\ Cardinality({c \in {"pin", "usb", "events"} :
                    \/ c = "pin" /\ cfg.pin
                    \/ c = "usb" /\ cfg.usb # None
                    \/ c = "events" /\ cfg.events}) = 1
  /\ cfg.usb # None => cfg.key # None

\* the program is past parse_args: at the dispatch, in the enumeration, at
\* the device open, in measure_loop (the pins, the delays, the trials)
PastParseArgs ==
  \/ pc \notin {"parse_args", "exited"}
  \/ trace # <<>>
  \/ ncalls > 0
  \/ IsSome(fd)
  \/ IsSome(pin_out)
  \/ event_id > 0
  \/ \E k \in 1..Len(out) : out[k].kind # "help"
  \/ \E k \in 1..Len(err) : err[k][1] = "Could not open fd for"

\* C5: whenever the program is past parse_args (so at every device open,
\* pin initialization and delay generation) the configuration has
\* iterations >= 1, 0 <= delay_min <= delay_max, exactly one of pin, usb
\* and events, and a key code if usb is selected.
C5_ValidBeforeAccess == PastParseArgs => ValidConfig(config)

\* the pins are initialized with one delay bound given and the other default
C5_Witness ==
  /\ pc = "get_delays"
  /\ IsSome(pin_out)
  /\ config.delay_min = 1
  /\ config.delay_max = DefaultDelayMax

\* a measurement or a device listing ran to its end
RanToCompletion ==
  \/ backend # "none" /\ Len(LoopTrace) = 7 * config.iterations
       /\ \E k \in 1..Len(out) : out[k].kind = "sample"
  \/ config.events /\ event_id = NumEventIds

HelpRequested == "help" \in seen

\* the process ended inside parse_args, help not having been asked for
ValidationFailed == pc = "exited" /\ ~PastParseArgs /\ ~HelpRequested

\* the evdev device of a usb measurement could not be opened
OpenFailed == \E k \in 1..Len(err) : err[k][1] = "Could not open fd for"

\* C6: a process that has ended has status 0 or 1; it has status 0 exactly
\* when a measurement or a listing ran to completion or help was requested,
\* and status 1 on every validation failure and on a device-open failure.
C6_ExitStatus ==
  pc = "exited" =>
    /\ exit_code \in {Some(0), Some(1)}
    /\ exit_code = Some(0) <=> (RanToCompletion \/ HelpRequested)
    /\ (ValidationFailed \/ OpenFailed) => exit_code = Some(1)

\* C7: get_delays returns exactly config.iterations values, each within
\* delay_min..delay_max, and all equal to the bound when the bounds agree.
C7_DelaysInRange ==
  pc = "times" =>
    /\ Len(delays) = config.iterations
    /\ \A k \in 1..Len(delays) :
         config.delay_min <= delays[k] /\ delays[k] <= config.delay_max
    /\ config.delay_min = config.delay_max =>
         \A k \in 1..Len(delays) : delays[k] = config.delay_min

\* get_delays has returned two values, the upper and the lower bound
C7_Witness ==
  /\ pc = "times"
  /\ config.delay_min < config.delay_max
  /\ delays = <<config.delay_max, config.delay_min>>

\* C8: every invocation of get_delays starts from an engine seeded with the
\* same constant that has handed out nothing, leaves no engine behind, and
\* a second invocation on the same configuration returns the sequence the
\* first returned.
C8_Deterministic ==
  /\ (pc = "generate" /\ j = 0) => rand_gen = Some([seed |-> 30378, pos |-> 0])
  /\ pc = "times" => rand_gen = None
  /\ (pc = "times" /\ IsSome(prev_delays)) => delays = Val(prev_delays)

\* the second invocation has returned, with two different delays
C8_Witness ==
  /\ pc = "times"
  /\ IsSome(prev_delays)
  /\ Len(delays) = 2
  /\ delays[1] # delays[2]

\* a measurement has completed and its output is written
MeasurementDone ==
  /\ backend # "none"
  /\ \/ pc = "main_return"
     \/ pc = "exited" /\ exit_code = Some(0)

\* line is the line of the sample v: its decimal digits, a '-' before them
\* if it is negative, and nothing else
IsSampleOf(line, v) ==
  /\ line.kind = "sample"
  /\ \A k \in 1..Len(line.text) : line.text[k] \in Digits \cup {"-"}
  /\ stoi(line.text) = [status |-> "ok", val |-> v]

\* C9 as stated: the output of a completed measurement is the N sample
\* lines, in trial order, and nothing else.
C9_OnlySamples ==
  MeasurementDone =>
    /\ Len(out) = config.iterations
    /\ \A k \in 1..Len(out) : IsSampleOf(out[k], times[k])

\* C9, amended: the output of a completed measurement is the N sample
\* lines, in trial order, with nothing after them and nothing before them
\* but the summary line (once) when the summary flag is set.
C9_SampleLines ==
  MeasurementDone =>
    LET h == IF config.summary THEN 1 ELSE 0 IN
    /\ Len(out) = h + config.iterations
    /\ config.summary => out[1] = SummaryLine(config)
    /\ \A k \in 1..config.iterations : IsSampleOf(out[h + k], times[k])

\* a measurement of two trials with different samples, with the summary
\* asked for, has completed
C9_Witness ==
  /\ MeasurementDone
  /\ config.summary
  /\ Len(times) = 2
  /\ times[1] # times[2]

\* C10: the summary line is never produced when the flag is not set; when
\* it is set the line is produced once, before anything is initialized: no
\* device open and no init_pins precedes it, and none happens without it.
C10_SummaryFirst ==
  LET prints == {k \in 1..Len(trace) : trace[k].op = "print_config"}
      lines == {k \in 1..Len(out) : out[k].kind = "summary"}
  IN  /\ ~config.summary => lines = {}
      /\ Cardinality(lines) <= 1
      /\ \A k \in prints : k = 1
      /\ (config.summary /\ (IsSome(pin_out) \/ IsSome(fd)) /\ backend # "none")
           => Cardinality(lines) = 1

\* the positions of the sample lines in the standard output
SamplesOut == {k \in 1..Len(out) : out[k].kind = "sample"}

\* the opens of the evdev device that failed
FailedOpens == {k \in 1..Len(trace) : trace[k].op = "open_failed"}

\* C11: when measure_usb cannot open the device, the failure is on the error
\* stream with the attempted event id and nothing else is, the process has
\* ended with status 1, the pins were not initialized, no trial step was
\* taken, no delay was generated and no sample was written; an open failure
\* in usb mode never goes unreported. In events mode failed opens leave the
\* error stream empty and the process ends only after the last index, with
\* status 0.
C11_OpenFailure ==
  /\ OpenFailed =>
       /\ pc = "exited"
       /\ exit_code = Some(1)
       /\ err = << <<"Could not open fd for", ToInt(Val(config.usb))>> >>
       /\ pin_out = None
       /\ LoopTrace = <<>>
       /\ ncalls = 0
       /\ SamplesOut = {}
  /\ (~config.events /\ FailedOpens # {}) => OpenFailed
  /\ (config.events /\ PastParseArgs) =>
       /\ err = <<>>
       /\ exit_code \in {None, Some(0)}
       /\ pc = "exited" => event_id = NumEventIds

\* the device of a usb measurement with the summary asked for could not be
\* opened
C11_Witness ==
  /\ OpenFailed
  /\ config.summary
  /\ IsSome(config.usb)

\* the opens print_event_paths has attempted, in the order attempted
IsEnumTry(e) == e.op \in {"open", "open_failed"}
EnumTried == SelectSeq(trace, IsEnumTry)

\* the opens of print_event_paths that succeeded, in the order attempted
IsEnumOpen(e) == e.op = "open"
EnumOpened == SelectSeq(trace, IsEnumOpen)

\* the Event of the running iteration is open and its entry not yet written
EntryPending == IF pc = "print_event_name" THEN 1 ELSE 0

\* C12: print_event_paths tries the indices 0, 1, 2, ... in this order, each
\* once, whatever the outcome of the earlier opens, and has tried all of
\* 0..255 when it returns; the entries written are those of the indices
\* whose open succeeded, one each, in ascending order, and there is no entry
\* for an index whose open failed.
C12_Enumeration ==
  (config.events /\ PastParseArgs) =>
    LET tried  == EnumTried
        opened == EnumOpened
    IN  /\ \A k \in 1..Len(tried) : tried[k].id = k - 1
        /\ Len(tried) = event_id + EntryPending
        /\ Len(out) = Len(opened) - EntryPending
        /\ \A k \in 1..Len(out) : out[k] = [kind |-> "event", id |-> opened[k].id]
        /\ \A k \in 1..Len(out) : \A l \in 1..Len(out) :
             k < l => out[k].id < out[l].id
        /\ pc \in {"main_return", "exited"} => Len(tried) = NumEventIds

\* the enumeration has ended and only index 3 opened
C12_Witness ==
  /\ config.events
  /\ pc = "exited"
  /\ exit_code = Some(0)
  /\ out = <<[kind |-> "event", id |-> 3]>>

\* measure_loop is entered for a run of at most MaxIter trials (in usb mode
\* the device is open)
RunStarted == pc = "measure_loop" /\ config.iterations <= MaxIter

\* the process has ended with status 0 after exactly N trials and N sample
\* lines
RunDone ==
  /\ pc = "exited"
  /\ exit_code = Some(0)
  /\ Len(LoopTrace) = 7 * config.iterations
  /\ Cardinality(StoresOf(config.iterations - 1)) = 1
  /\ Cardinality(SamplesOut) = config.iterations

\* C13: when every detect call eventually observes its target, a
\* measurement run that has entered measure_loop performs its N trials,
\* writes its N samples and the process ends with status 0.
C13_Terminates == RunStarted ~> RunDone

\* a usb measurement of two trials has ended with status 0
C13_Witness ==
  /\ RunDone
  /\ backend = "usb"
  /\ config.iterations = 2

\* what the running detect call waits for is there to be read
TargetPresent ==
  IF backend = "pin"
    THEN pin_in = TargetLevel(Pressed)
    ELSE queue # <<>> /\ IsTarget(Head(queue), Pressed)

\* a step taken while a detect call runs: the call returns only on reading
\* its target, the process does not end and nothing is written
C14_Step ==
  InDetect =>
    /\ pc' # pc => TargetPresent
    /\ pc' \in {pc, "store", "sleep", "loop_return"}
    /\ UNCHANGED <<exit_code, out, err>>

\* sample lines exist only once the loop has run all its trials
C14_State ==
  SamplesOut # {} =>
    /\ pc \in {"main_return", "exited"}
    /\ Len(LoopTrace) = 7 * config.iterations

\* C14: there is no timeout. A detect call is left only by a read of its
\* target, so while the target is not observed the call goes on, the loop
\* does not advance, the process does not end, and no sample line is
\* written: the sample lines, those of the completed trials included,
\* appear only after the last trial.
C14_NoTimeout == []C14_State /\ [][C14_Step]_vars

\* the second trial waits, has read something that is not its target, and
\* the sample of the first trial is stored but not written
C14_Witness ==
  /\ pc = "detect_true"
  /\ i = 1
  /\ IsSome(last_read)
  /\ ~TargetPresent
  /\ StoresOf(0) # {}
  /\ out = <<>>

\* the positions in the history of init_pins and of the device opens
InitPinsAt == {k \in 1..Len(trace) : trace[k].op = "init_pins"}
OpensAt == {k \in 1..Len(trace) : trace[k].op = "open"}
LoopOpsAt == {k \in 1..Len(trace) : trace[k].op \in LoopOps}

\* positions inside measure_loop from get_delays on
InLoop ==
  pc \in {"get_delays", "generate", "times", "sleep", "start", "write_high",
          "detect_true", "store", "write_low", "detect_false", "loop_return"}

\* C15: in a measurement run init_pins runs once: never more than once,
\* once when get_delays is reached, and before every step of every trial;
\* it leaves the output LOW until the first trial drives it. In usb mode
\* the device is opened once, before init_pins and before every trial
\* step, it is the device of config.usb, and that descriptor is the open
\* one during the whole loop, so every detect call reads the same handle.
C15_InitOnce ==
  backend # "none" =>
    /\ Cardinality(InitPinsAt) <= 1
    /\ pc \notin {"measure_loop", "init_pins"} => Cardinality(InitPinsAt) = 1
    /\ \A k \in InitPinsAt : \A l \in LoopOpsAt : k < l
    /\ (InLoop /\ i = 0 /\ pc \in {"get_delays", "generate", "times", "sleep",
                                   "start", "write_high"})
         => pin_out = Some(LOW)
    /\ backend = "usb" =>
         /\ Cardinality(OpensAt) = 1
         /\ \A k \in OpensAt :
              /\ \A l \in InitPinsAt \cup LoopOpsAt : k < l
              /\ trace[k].id = ToInt(Val(config.usb))
              /\ (InLoop \/ pc \in {"measure_loop", "init_pins"})
                   => fd = Some(trace[k].id)

\* the second trial of a usb measurement is in its timed wait
C15_Witness ==
  /\ backend = "usb"
  /\ pc = "detect_true"
  /\ i = 1
  /\ IsSome(fd)

\* the opens that succeeded and the closes, in the order they happened
IsHandleOp(e) == e.op \in {"open", "close"}
HandleOps == SelectSeq(trace, IsHandleOp)

\* main has returned, or is about to
NormalReturn ==
  \/ pc = "main_return"
  \/ pc = "exited" /\ exit_code = Some(0) /\ PastParseArgs

\* C16: opens and closes alternate, beginning with an open, and every close
\* is of the descriptor opened just before it: so at most one handle is
\* open at a time, none is closed twice, and none is closed that did not
\* open. In the enumeration the close follows its open before anything else
\* is tried. In usb mode the handle is open during the whole loop and is
\* closed, after the last trial step, when measure_usb returns. No handle
\* is open when main returns.
C16_Handles ==
  LET ops == HandleOps IN
  /\ \A k \in 1..Len(ops) :
       IF k % 2 = 1 THEN ops[k].op = "open"
                    ELSE ops[k].op = "close" /\ ops[k].id = ops[k - 1].id
  /\ IsSome(fd) <=> Len(ops) % 2 = 1
  /\ IsSome(fd) => fd = Some(ops[Len(ops)].id)
  /\ config.events =>
       \A k \in 1..(Len(trace) - 1) :
         trace[k].op = "open" => trace[k + 1] = [op |-> "close", id |-> trace[k].id]
  /\ (backend = "usb" /\ (InLoop \/ pc \in {"measure_loop", "init_pins"}))
       => Len(ops) = 1
  /\ (backend = "usb" /\ pc \in {"measure", "main_return"}) =>
       /\ Len(ops) = 2
       /\ trace[Len(trace)].op = "close"
       /\ Len(LoopTrace) = 7 * config.iterations
  /\ NormalReturn => Len(ops) % 2 = 0

\* the enumeration has ended after opening two devices, with a failed open
\* before them
C16_Witness ==
  /\ config.events
  /\ pc = "exited"
  /\ Len(HandleOps) = 4
  /\ trace[1].op = "open_failed"

\* a step of a read that returned -1
FailedRead ==
  /\ backend = "usb"
  /\ InDetect
  /\ last_read' = Some(NoEvent)
  /\ Len(queue') <= Len(queue)

\* a failed read changes nothing the program or its environment can tell:
\* the call goes on, the process goes on, the samples, the queued events
\* and the output are as before
C17_Step ==
  FailedRead =>
    UNCHANGED <<pc, exit_code, out, err, times, queue, i, start, fd, pin_out,
                delays, trace>>

\* a failed read is the last thing read only while the call still waits
C17_State ==
  (backend = "usb" /\ last_read = Some(NoEvent)) =>
    /\ InDetect
    /\ exit_code = None
    /\ SamplesOut = {}

\* C17: a read of the evdev device that returns -1 does not end detect,
\* does not end the process or set its status, writes nothing, stores and
\* alters no sample, and takes no event from the queue; after it detect is
\* where it was, about to read again.
C17_ReadFailure == []C17_State /\ [][C17_Step]_vars

\* the second trial's timed wait has had a failed read while an event is
\* queued, the first trial's sample being stored
C17_Witness ==
  /\ backend = "usb"
  /\ pc = "detect_true"
  /\ i = 1
  /\ last_read = Some(NoEvent)
  /\ queue # <<>>
  /\ StoresOf(0) # {}

\* the three modes, as far as the run shows them
Enumerated ==
  \/ event_id > 0
  \/ \E k \in 1..Len(out) : out[k].kind = "event"
  \/ pc \in {"print_event_paths", "print_event_name"}

Measured ==
  \/ IsSome(pin_out)
  \/ ncalls > 0
  \/ InitPinsAt # {}
  \/ LoopOpsAt # {}
  \/ \E k \in 1..Len(out) : out[k].kind \in {"sample", "summary"}
  \/ backend # "none"

\* C18: a run whose configuration has events set never initializes or
\* drives the pins, never generates delays and writes neither a sample nor
\* a summary line; a run without events set never enumerates; a pin run
\* never opens a device. A run that returns from main has executed exactly
\* one of the three modes: the enumeration to its end, or the pin
\* measurement, or the usb measurement.
C18_ModesApart ==
  /\ config.events => ~Measured
  /\ ~config.events => ~Enumerated
  /\ ~(Enumerated /\ Measured)
  /\ backend = "pin" => OpensAt \cup FailedOpens = {}
  /\ NormalReturn =>
       Cardinality({m \in {"events", "pin", "usb"} :
                      \/ m = "events" /\ config.events
                                      /\ event_id = NumEventIds
                      \/ m = "pin" /\ backend = "pin" /\ SamplesOut # {}
                      \/ m = "usb" /\ backend = "usb" /\ SamplesOut # {}}) = 1

\* an enumeration that found a device has ended
C18_Witness ==
  /\ config.events
  /\ NormalReturn
  /\ pc = "exited"
  /\ Len(out) = 1
  /\ out[1].id = 0

\* a press of the configured key is queued on the device at the moment the
\* trial drives its output: reads take the oldest event first, so the first
\* such press is the event on which the trial's detect(true) returns
StalePress ==
  /\ backend = "usb"
  /\ pc = "write_high"
  /\ \E k \in 1..Len(queue) : IsTarget(queue[k], TRUE)

\* C19: no press of the configured key that was queued before a trial's
\* output is driven asserted can end that trial's timed wait: when the
\* output is about to be driven, no such press is queued.
C19_OwnFlip == ~StalePress

\* C20: the output pin has a level from init_pins on and none before; it is
\* HIGH exactly from a trial's drive-asserted step to the same trial's
\* drive-deasserted step (during detect(true) and the store) and LOW
\* everywhere else: in every sleep, in every detect(false), when the loop
\* returns and after.
C20_OutputLevel ==
  /\ IsSome(pin_out) <=> InitPinsAt # {}
  /\ IsSome(pin_out) =>
       (pin_out = Some(HIGH) <=> pc \in {"detect_true", "store", "write_low"})
  /\ (pc \in {"sleep", "start", "write_high", "detect_false", "loop_return",
               "measure"})
       => pin_out = Some(LOW)
  /\ (backend # "none" /\ NormalReturn) => pin_out = Some(LOW)

\* the second trial has driven the output and stored its sample
C20_Witness ==
  /\ pc = "write_low"
  /\ i = 1
  /\ pin_out = Some(HIGH)

TypeOK ==
  /\ exit_code \in {None, Some(0), Some(1), Some(StatusAbort)}
  /\ pin_in \in {LOW, HIGH}
  /\ Len(queue) <= MaxQueue

====
